---- MODULE Spec2Model ----
(***************************************************************************)
(* A model of src/main.py: StravaCommitUpdater and main().                 *)
(*                                                                         *)
(* One behaviour is one run of the script: either main() (credentials from *)
(* the environment, update_last_runs(30)) or a caller that constructs an   *)
(* updater and calls update_last_runs(n).  The remote services (token      *)
(* endpoint, activity listing, caption endpoint, rename endpoint) are the  *)
(* environment: every response is a nondeterministic choice.  Every        *)
(* request the program sends is appended to `calls` together with the      *)
(* response it got, and the lines it prints are appended to `out`.         *)
(***************************************************************************)
EXTENDS Integers, Sequences, FiniteSets, TLC

(***************************************************************************)
(* Bounds of the model.                                                    *)
(***************************************************************************)
MaxActivities == 3      \* activities the remote account holds
MaxCount == 3           \* largest count a direct caller passes
MaxRequests == 3        \* a client session starts no call once the request log
                        \* holds this many requests
MaxSessionActivities == 1   \* activities of the account in a client session

(***************************************************************************)
(* Program constants.                                                      *)
(***************************************************************************)
PerPage == 100          \* 'per_page': 100
MainCount == 30         \* updater.update_last_runs(30)

(***************************************************************************)
(* Python values.  A value is a record [t, v]: None, a string (a sequence  *)
(* of one-character strings) or a list (a sequence).                       *)
(***************************************************************************)
PyNone == [t |-> "None", v |-> <<>>]
PyStr(s) == [t |-> "str", v |-> s]
PyList(s) == [t |-> "list", v |-> s]

\* Python truthiness, as used by `not x` and all([...]): None, "" and []
\* are false.
Truthy(x) == x.t # "None" /\ x.v # <<>>

Min(a, b) == IF a <= b THEN a ELSE b
Max(a, b) == IF a >= b THEN a ELSE b

(***************************************************************************)
(* str.strip(): leading and trailing whitespace removed.                   *)
(***************************************************************************)
Whitespace == {" ", "\n", "\t"}

RECURSIVE LStrip(_)
LStrip(s) ==
    IF s = <<>> THEN s
    ELSE IF Head(s) \in Whitespace THEN LStrip(Tail(s)) ELSE s

RECURSIVE RStrip(_)
RStrip(s) ==
    IF s = <<>> THEN s
    ELSE IF s[Len(s)] \in Whitespace THEN RStrip(SubSeq(s, 1, Len(s) - 1)) ELSE s

Strip(s) == RStrip(LStrip(s))

(***************************************************************************)
(* s[:n] of Python: the first n elements for n >= 0, all but the last -n   *)
(* for n < 0.                                                              *)
(***************************************************************************)
SlicePrefix(s, n) ==
    IF n >= 0 THEN SubSeq(s, 1, Min(n, Len(s)))
    ELSE SubSeq(s, 1, Max(0, Len(s) + n))

(***************************************************************************)
(* The values the environment supplies.                                    *)
(***************************************************************************)
\* os.getenv: None when the variable is absent, else its (maybe empty) text.
EnvValues == {PyNone, PyStr(<<>>), PyStr(<<"x">>)}
Environments == [client_id : EnvValues, client_secret : EnvValues,
                 refresh_token : EnvValues]
FullEnvironment == [client_id |-> PyStr(<<"x">>), client_secret |-> PyStr(<<"x">>),
                    refresh_token |-> PyStr(<<"x">>)]

ActivityTypes == {"Run", "Ride"}
OldName == <<"o", "l", "d">>

\* The remote account: activities most recent first, identifiers unique.
RemoteStates ==
    UNION {{[k \in 1..n |-> [id |-> k, type |-> ty[k], name |-> OldName]] :
              ty \in [1..n -> ActivityTypes]} : n \in 0..MaxActivities}

Counts == (-1)..MaxCount

\* Outcomes of one HTTP exchange as the requests library reports them.
HttpFailures == {"network_error", "http_error"}
TokenOutcomes == HttpFailures \cup {"no_field", "ok"}
HttpOutcomes == HttpFailures \cup {"ok"}

\* Bodies the caption endpoint may answer with.
CaptionBodies == {<<>>, <<"\n">>, <<" ", "a", "\n">>, <<"b", " ", "c">>}

VARIABLES
    entry,          \* "main" or "api": how the run was started
    env,            \* the process environment (STRAVA_* variables)
    count,          \* the count argument of update_last_runs
    pc,             \* position of the run in the code
    updater,        \* the StravaCommitUpdater object's fields
    remote,         \* the remote account's activities
    runs,           \* update_last_runs: runs
    i,              \* update_last_runs: the loop's iteration (enumerate from 1)
    commit_message, \* update_last_runs: commit_message
    success_count,  \* update_last_runs: success_count
    calls,          \* every request sent so far, with its response
    out,            \* the lines printed so far that tell the outcome of a step
                    \* (the echoes of status codes and of names are left out)
    last            \* the last method a client called on the updater directly,
                    \* and how it ended

vars == <<entry, env, count, pc, updater, remote, runs, i, commit_message,
          success_count, calls, out, last>>

(***************************************************************************)
(* Requests and printed lines.                                             *)
(***************************************************************************)
Call(kind, auth, id, name, per_page, status, body) ==
    [kind |-> kind, auth |-> auth, id |-> id, name |-> name,
     per_page |-> per_page, status |-> status, body |-> body]

Line(msg, a, b) == [msg |-> msg, a |-> a, b |-> b]

\* A method call that has ended: `ret` is "True", "False", "None", "list" or
\* the exception raised, `value` the list returned, `at` the length of the
\* request log when it ended.
Ended(method, ret, value, at) ==
    [method |-> method, ret |-> ret, value |-> value, at |-> at]
NoCall == Ended("", "", <<>>, 0)

Init ==
    /\ entry \in {"main", "api"}
    /\ IF entry = "main"
         THEN env \in Environments /\ count = MainCount
         ELSE env = FullEnvironment /\ count \in Counts
    /\ pc = "start"
    /\ updater = [client_id |-> PyNone, client_secret |-> PyNone,
                  refresh_token |-> PyNone, access_token |-> PyNone]
    /\ remote \in RemoteStates
    /\ runs = PyNone
    /\ i = 0
    /\ commit_message = PyNone
    /\ success_count = 0
    /\ calls = <<>>
    /\ out = <<>>
    /\ last = NoCall

\* __init__
NewUpdater(client_id, client_secret, refresh_token) ==
    [client_id |-> client_id, client_secret |-> client_secret,
     refresh_token |-> refresh_token, access_token |-> PyNone]

\* Faulty variant of the check of main: `is None` instead of truthiness, so
\* an empty value passes.
MissingCredentialsNoneOnly(e) ==
    e.client_id.t = "None" \/ e.client_secret.t = "None" \/ e.refresh_token.t = "None"

\* main: `not all([client_id, client_secret, refresh_token])`
MissingCredentials(e) ==
    ~(Truthy(e.client_id) /\ Truthy(e.client_secret) /\ Truthy(e.refresh_token))

\* main(): the environment check, the construction of the updater and the
\* call of update_last_runs(30).
Main ==
    /\ entry = "main"
    /\ pc = "start"
    /\ IF MissingCredentials(env)
         THEN /\ out' = out \o <<Line("Missing required environment variables!", 0, 0)>>
              /\ pc' = "done"
              /\ UNCHANGED updater
         ELSE /\ updater' = NewUpdater(env.client_id, env.client_secret,
                                       env.refresh_token)
              /\ pc' = "get_last_runs"
              /\ UNCHANGED out
    /\ UNCHANGED <<last, entry, env, count, remote, runs, i, commit_message,
                   success_count, calls>>

(***************************************************************************)
(* refresh_access_token.  `o` is the token endpoint's answer.  The result  *)
(* is the updater after the call, the request log, the lines printed and   *)
(* how the method ended: "True", "False", or "KeyError" when               *)
(* token_data['access_token'] finds no such key (the except clause catches *)
(* requests.exceptions.RequestException only).                             *)
(***************************************************************************)
TokenRequests(log) == SelectSeq(log, LAMBDA c : c.kind = "token")

\* The access token the endpoint issues: a fresh non-empty string per exchange.
IssuedToken(log) == [k \in 1..(Len(TokenRequests(log)) + 1) |-> "t"]

\* Faulty variant: a failed exchange clears the token held.
RefreshAccessTokenClearing(u, log, o) ==
    LET body == IF o = "ok" THEN IssuedToken(log) ELSE <<>>
        sent == Append(log, Call("token", PyNone, 0, <<>>, 0, o, body))
    IN  [updater |-> [u EXCEPT !.access_token =
                          IF o = "ok" THEN PyStr(body) ELSE PyNone],
         calls |-> sent,
         lines |-> <<>>,
         ret |-> IF o = "ok" THEN "True"
                 ELSE IF o = "no_field" THEN "KeyError" ELSE "False"]

RefreshAccessToken(u, log, o) ==
    LET body == IF o = "ok" THEN IssuedToken(log) ELSE <<>>
        sent == Append(log, Call("token", PyNone, 0, <<>>, 0, o, body))
    IN  IF o = "ok"
          THEN [updater |-> [u EXCEPT !.access_token = PyStr(body)],
                calls |-> sent,
                lines |-> <<Line("Successfully refreshed access token", 0, 0)>>,
                ret |-> "True"]
        ELSE IF o = "no_field"
          THEN [updater |-> u, calls |-> sent, lines |-> <<>>, ret |-> "KeyError"]
          ELSE [updater |-> u, calls |-> sent,
                lines |-> <<Line("Error refreshing token", 0, 0)>>,
                ret |-> "False"]

\* Faulty variant: the token is exchanged before every authenticated call.
NeedsRefreshAlways(u) == TRUE

\* `if not self.access_token:` of get_last_runs and update_activity_title
NeedsRefresh(u) == ~Truthy(u.access_token)

\* A caller other than main(): StravaCommitUpdater(...).update_last_runs(n)
CallUpdateLastRuns ==
    /\ entry = "api"
    /\ pc = "start"
    /\ updater' = NewUpdater(env.client_id, env.client_secret, env.refresh_token)
    /\ pc' = "get_last_runs"
    /\ UNCHANGED <<last, entry, env, count, remote, runs, i, commit_message,
                   success_count, calls, out>>

\* get_last_runs, lines 36-38: the lazy token exchange
GetLastRunsEnsureToken ==
    /\ pc = "get_last_runs"
    /\ IF NeedsRefresh(updater)
         THEN \E o \in TokenOutcomes :
                LET r == RefreshAccessToken(updater, calls, o)
                IN  /\ updater' = r.updater
                    /\ calls' = r.calls
                    /\ out' = out \o r.lines
                    /\ pc' = IF r.ret = "True" THEN "listing"
                             ELSE IF r.ret = "False" THEN "check_runs"
                             ELSE "raised"
                    /\ runs' = PyNone
         ELSE /\ pc' = "listing"
              /\ UNCHANGED <<updater, calls, out, runs>>
    /\ UNCHANGED <<last, entry, env, count, remote, i, commit_message, success_count>>

\* The listing endpoint: the per_page most recent activities.
ListActivities(r, per_page) == SubSeq(r, 1, Min(per_page, Len(r)))

\* Faulty variant: the type filter dropped.
IsRunAny(activity) == TRUE

\* `activity['type'] == 'Run'`
IsRun(activity) == activity.type = "Run"

\* Faulty variant: the page truncated to count before it is filtered.
SelectRunsTruncateFirst(all_activities, n) ==
    SelectSeq(SlicePrefix(all_activities, n), LAMBDA a : a.type = "Run")

\* Faulty variant: the [:count] dropped, every run of the page is selected.
SelectRunsNoLimit(all_activities, n) ==
    SelectSeq(all_activities, LAMBDA a : a.type = "Run")

\* [activity for activity in all_activities if activity['type'] == 'Run'][:count]
SelectRuns(all_activities, n) == SlicePrefix(SelectSeq(all_activities, IsRun), n)

\* get_last_runs, lines 40-68: the listing request and the selection
GetLastRunsFetch ==
    /\ pc = "listing"
    /\ \E o \in HttpOutcomes :
         /\ calls' = Append(calls, Call("list", updater.access_token, 0, <<>>,
                                        PerPage, o, <<>>))
         /\ IF o = "ok"
              THEN LET selected == SelectRuns(ListActivities(remote, PerPage), count)
                   IN  /\ runs' = PyList(selected)
                       /\ out' = Append(out, Line("Found running activities",
                                                  Len(selected), 0))
              ELSE /\ runs' = PyNone
                   /\ out' = Append(out, Line("Error fetching activities", 0, 0))
    /\ pc' = "check_runs"
    /\ UNCHANGED <<last, entry, env, count, updater, remote, i, commit_message,
                   success_count>>

\* The loop `for i, activity in enumerate(runs, 1)`: where the run goes
\* after iteration j of a list of n.
LoopNext(j, n) == IF j < n THEN "caption" ELSE "summary"

\* Faulty variant: `if runs is None:`, so an empty list goes on to the loop.
NothingToDoNoneOnly(r) == r.t = "None"

\* update_last_runs, `if not runs:`
NothingToDo(r) == ~Truthy(r)

\* update_last_runs, lines 104-110: the result of get_last_runs is examined
UpdateLastRunsCheck ==
    /\ pc = "check_runs"
    /\ IF NothingToDo(runs)
         THEN /\ out' = Append(out,
                    Line("No running activities found or error occurred", 0, 0))
              /\ pc' = "done"
              /\ UNCHANGED <<i, success_count>>
         ELSE /\ out' = Append(out, Line("Updating running activities",
                                         Len(runs.v), 0))
              /\ success_count' = 0
              /\ i' = 1
              /\ pc' = LoopNext(0, Len(runs.v))
    /\ UNCHANGED <<last, entry, env, count, updater, remote, runs, commit_message, calls>>

\* Faulty variant: a skipped item sends the loop back to the caption fetch,
\* also after the last item.
AfterSkipRetry(j, n) == "caption"

\* Faulty variant: `break` instead of `continue`.
AfterSkipBreak(j, n) == "summary"

\* `continue` after a caption that could not be used
AfterSkip(j, n) == LoopNext(j, n)

\* Faulty variant: the loop left after a rename that failed.
AfterUpdateAbort(ok, j, n) == IF ok THEN LoopNext(j, n) ELSE "summary"

\* the end of the loop body after update_activity_title returned `ok`
AfterUpdate(ok, j, n) == LoopNext(j, n)

\* Faulty variant: every iteration takes the first activity of the list.
CurrentActivityFirst(rs, j) == rs[1]

\* enumerate(runs, 1): the activity of iteration j
CurrentActivity(rs, j) == rs[j]

\* get_random_commit_message: response.text.strip(), or None on a failure
GetRandomCommitMessage(o, body) ==
    IF o = "ok" THEN PyStr(Strip(body)) ELSE PyNone

\* Faulty variant: `if commit_message is None:`, so an empty caption is used.
NoCommitMessageNoneOnly(m) == m.t = "None"

\* update_last_runs, `if not commit_message:`
NoCommitMessage(m) == ~Truthy(m)

\* update_last_runs, lines 113-116: the caption of iteration i
UpdateLastRunsCaption ==
    /\ pc = "caption"
    /\ \E o \in HttpOutcomes :
       \E body \in (IF o = "ok" THEN CaptionBodies ELSE {<<>>}) :
         LET m == GetRandomCommitMessage(o, body)
         IN  /\ calls' = Append(calls, Call("caption", PyNone, 0, <<>>, 0, o, body))
             /\ commit_message' = m
             /\ IF NoCommitMessage(m)
                  THEN /\ out' = out \o
                            (IF o = "ok" THEN <<>>
                             ELSE <<Line("Error fetching commit message", 0, 0)>>)
                            \o <<Line("Failed to get commit message, skipping activity",
                                      0, 0)>>
                       /\ pc' = AfterSkip(i, Len(runs.v))
                       /\ i' = i + 1
                  ELSE /\ out' = Append(out, Line("Updating run", i, Len(runs.v)))
                       /\ pc' = "rename"
                       /\ UNCHANGED i
    /\ UNCHANGED <<last, entry, env, count, updater, remote, runs, success_count>>

\* Faulty variant: the new title is added to the name instead of replacing it.
RenameRemoteAppend(r, id, title) ==
    [k \in DOMAIN r |->
        IF r[k].id = id THEN [r[k] EXCEPT !.name = r[k].name \o title] ELSE r[k]]

\* The rename endpoint: a 2xx answer means the name was written.
RenameRemote(r, id, title) ==
    [k \in DOMAIN r |-> IF r[k].id = id THEN [r[k] EXCEPT !.name = title] ELSE r[k]]

(***************************************************************************)
(* update_activity_title(activity_id, new_title).  `t` is the token        *)
(* endpoint's answer should the method refresh, `o` the rename endpoint's. *)
(***************************************************************************)
UpdateActivityTitle(u, log, r, activity_id, new_title, t, o) ==
    LET fresh == IF NeedsRefresh(u) THEN RefreshAccessToken(u, log, t)
                 ELSE [updater |-> u, calls |-> log, lines |-> <<>>, ret |-> "True"]
    IN  IF fresh.ret # "True"
          THEN [updater |-> fresh.updater, calls |-> fresh.calls, remote |-> r,
                lines |-> fresh.lines, ret |-> fresh.ret]
          ELSE [updater |-> fresh.updater,
                calls |-> Append(fresh.calls,
                                 Call("rename", fresh.updater.access_token,
                                      activity_id, new_title, 0, o, <<>>)),
                remote |-> IF o = "ok" THEN RenameRemote(r, activity_id, new_title)
                           ELSE r,
                lines |-> fresh.lines \o
                          (IF o = "ok" THEN <<>>
                           ELSE <<Line("Error updating activity", activity_id, 0)>>),
                ret |-> IF o = "ok" THEN "True" ELSE "False"]

\* update_last_runs, lines 118-126: the rename of iteration i
UpdateLastRunsRename ==
    /\ pc = "rename"
    /\ \E o \in HttpOutcomes :
       \E t \in (IF NeedsRefresh(updater) THEN TokenOutcomes ELSE {"ok"}) :
         LET activity == CurrentActivity(runs.v, i)
             r == UpdateActivityTitle(updater, calls, remote, activity.id,
                                      commit_message.v, t, o)
         IN  /\ updater' = r.updater
             /\ calls' = r.calls
             /\ remote' = r.remote
             /\ IF r.ret = "KeyError"
                  THEN /\ out' = out \o r.lines
                       /\ pc' = "raised"
                       /\ UNCHANGED <<i, success_count>>
                  ELSE /\ out' = out \o r.lines \o
                            <<Line(IF r.ret = "True" THEN "Successfully updated"
                                   ELSE "Failed to update", 0, 0)>>
                       /\ success_count' = IF r.ret = "True" THEN success_count + 1
                                           ELSE success_count
                       /\ pc' = AfterUpdate(r.ret = "True", i, Len(runs.v))
                       /\ i' = i + 1
    /\ UNCHANGED <<last, entry, env, count, runs, commit_message>>

\* Faulty variant: the summary's total counts the renames attempted, not the
\* work list, so a skipped item is missing from it.
UpdateLastRunsSummaryOfAttempted ==
    /\ pc = "summary"
    /\ out' = out \o <<Line("Finished updating runs!", 0, 0),
                       Line("Successfully updated N out of M activities",
                            success_count,
                            Len(SelectSeq(calls, LAMBDA c : c.kind = "rename")))>>
    /\ pc' = "done"
    /\ UNCHANGED <<last, entry, env, count, updater, remote, runs, i, commit_message,
                   success_count, calls>>

\* update_last_runs, lines 128-129: the summary
UpdateLastRunsSummary ==
    /\ pc = "summary"
    /\ out' = out \o <<Line("Finished updating runs!", 0, 0),
                       Line("Successfully updated N out of M activities",
                            success_count, Len(runs.v))>>
    /\ pc' = "done"
    /\ UNCHANGED <<last, entry, env, count, updater, remote, runs, i, commit_message,
                   success_count, calls>>

(***************************************************************************)
(* Properties.  They are stated over the request log `calls`, the printed  *)
(* lines `out` and the remote account, not over the operators above.       *)
(***************************************************************************)
\* Positions of the log at which a request of the given kind was sent.
Pos(kind) == {p \in 1..Len(calls) : calls[p].kind = kind}
Sent(kind) == Cardinality(Pos(kind))

\* The loop iteration during which request p was sent: the loop fetches one
\* caption at the start of every iteration.
IterOf(p) == Cardinality({q \in Pos("caption") : q <= p})
RenamesIn(j) == {q \in Pos("rename") : IterOf(q) = j}

Printed(msg) == \E k \in 1..Len(out) : out[k].msg = msg

AbsentOrEmpty(x) == x = PyNone \/ x = PyStr(<<>>)
CredentialMissing ==
    \/ AbsentOrEmpty(env.client_id)
    \/ AbsentOrEmpty(env.client_secret)
    \/ AbsentOrEmpty(env.refresh_token)

\* C1: when main() runs with one of the three credentials absent or empty, no
\* request of any kind is ever sent, and the run ends having printed the
\* configuration error and nothing else.
C1_NoNetworkWithoutCredentials ==
    (entry = "main" /\ CredentialMissing) =>
        /\ calls = <<>>
        /\ pc \in {"start", "done"}
        /\ pc = "done" =>
              out = <<Line("Missing required environment variables!", 0, 0)>>

C1_Witness ==
    /\ entry = "main"
    /\ env.client_id = PyStr(<<"x">>)
    /\ env.client_secret = PyStr(<<>>)
    /\ env.refresh_token = PyStr(<<"x">>)
    /\ pc = "done"

\* The "Run" entries of the account, by position, and the k-th of them.
RunPositions == {p \in 1..Len(remote) : remote[p].type = "Run"}
KthRun(k) ==
    CHOOSE p \in RunPositions : Cardinality({q \in RunPositions : q <= p}) = k

\* get_last_runs returned a list (not None) for a count n >= 0.
ListingReturned == runs.t = "list" /\ count >= 0

\* C2: a successful get_last_runs(n), n >= 0, returns only items of type "Run",
\* at most n of them and at most as many as the fetched page holds: exactly
\* min(n, number of "Run" items of the page).
C2_OnlyRunsAtMostCount ==
    ListingReturned =>
        /\ \A k \in 1..Len(runs.v) : runs.v[k].type = "Run"
        /\ Len(runs.v) <= count
        /\ Len(runs.v) <= Cardinality(RunPositions)
        /\ Len(runs.v) = Min(count, Cardinality(RunPositions))

C2_Witness ==
    /\ ListingReturned
    /\ Len(runs.v) = count
    /\ count >= 1
    /\ count < Cardinality(RunPositions)
    /\ \E p \in 1..Len(remote) : remote[p].type # "Run"

\* C3: get_last_runs sends one listing request, with page size 100, and never
\* a second one; the list it returns is the first n "Run" entries of the page
\* in the order received (all of them when fewer than n match); and a run that
\* went through its loop fetched one caption per entry of that list and
\* reports that length as its total.
C3_FirstRunsOfOnePage ==
    /\ Sent("list") <= 1
    /\ \A p \in Pos("list") : calls[p].per_page = 100
    /\ ListingReturned =>
          /\ Sent("list") = 1
          /\ Len(runs.v) = Min(count, Cardinality(RunPositions))
          /\ \A k \in 1..Len(runs.v) :
                /\ runs.v[k].id = remote[KthRun(k)].id
                /\ runs.v[k].type = remote[KthRun(k)].type
    /\ (ListingReturned /\ pc \in {"summary", "done"} /\ runs.v # <<>>) =>
          Sent("caption") = Len(runs.v)
    /\ (ListingReturned /\ pc = "done" /\ runs.v # <<>>) =>
          /\ out[Len(out)].msg = "Successfully updated N out of M activities"
          /\ out[Len(out)].b = Min(count, Cardinality(RunPositions))

C3_Witness ==
    /\ ListingReturned
    /\ pc = "done"
    /\ Len(runs.v) = 2
    /\ Len(runs.v) < count
    /\ remote[1].type # "Run"
    /\ Sent("caption") = 2

\* The loop of update_last_runs was entered.
LoopEntered == i >= 1
\* The loop of update_last_runs has run to its end.
LoopOver == LoopEntered /\ pc \in {"summary", "done"}

\* The caption fetch p failed: a network error or a non-2xx answer.
CaptionFailed(p) == calls[p].status # "ok"

\* t is body without its leading and trailing whitespace.
IsTrimOf(t, body) ==
    \E lo \in 1..(Len(body) + 1) : \E hi \in 0..Len(body) :
        /\ t = SubSeq(body, lo, hi)
        /\ \A k \in 1..Len(body) : (k < lo \/ k > hi) => body[k] \in Whitespace
        /\ t # <<>> => (t[1] \notin Whitespace /\ t[Len(t)] \notin Whitespace)

\* The caption fetch p gave update_last_runs a commit message: the code's own
\* test is `if not commit_message`, which also rejects a blank answer.
CaptionObtained(p) ==
    calls[p].status = "ok" /\ ~IsTrimOf(<<>>, calls[p].body)

\* C4: the loop fetches one caption per work-list item whatever happened to
\* the items before; a caption fetch that fails in iteration k leaves item k
\* without a rename and nothing else: every other item that got a caption is
\* renamed once, and the counter is the number of renames that succeeded.
C4_CaptionFailureSkipsOneItem ==
    LoopEntered =>
        /\ Sent("caption") = (IF pc = "rename" THEN i ELSE i - 1)
        /\ LoopOver => Sent("caption") = Len(runs.v)
        /\ \A p \in Pos("caption") : CaptionFailed(p) => RenamesIn(IterOf(p)) = {}
        /\ \A p \in Pos("caption") :
              (CaptionObtained(p) /\ IterOf(p) < i /\
               \E f \in Pos("caption") : CaptionFailed(f))
                  => \E q \in RenamesIn(IterOf(p)) :
                        /\ RenamesIn(IterOf(p)) = {q}
                        /\ calls[q].id = runs.v[IterOf(p)].id
        /\ pc # "rename" =>
              success_count = Cardinality({q \in Pos("rename") : calls[q].status = "ok"})

C4_Witness ==
    /\ pc = "done"
    /\ Len(runs.v) = 3
    /\ Sent("caption") = 3
    /\ \E p \in Pos("caption") :
          /\ CaptionFailed(p)
          /\ IterOf(p) = 2
    /\ \E q \in RenamesIn(1) : calls[q].status = "ok"
    /\ \E q \in RenamesIn(3) : calls[q].status = "ok"
    /\ success_count = 2

\* C5: a rename that fails never ends the loop: every work-list item for which
\* a commit message was obtained gets exactly one rename request, whether the
\* renames before it succeeded or failed, and the loop visits every item.
C5_RenameFailureNeverAborts ==
    LoopEntered =>
        /\ \A p \in Pos("caption") :
              (CaptionObtained(p) /\ IterOf(p) < i)
                  => Cardinality(RenamesIn(IterOf(p))) = 1
        /\ \A q \in Pos("rename") :
              calls[q].status # "ok" =>
                  /\ pc # "raised"
                  /\ LoopOver => i = Len(runs.v) + 1
                  /\ (pc = "done" /\ IterOf(q) < Len(runs.v)) =>
                        \E p \in Pos("caption") : p > q

C5_Witness ==
    /\ pc = "done"
    /\ \E q \in RenamesIn(1) : calls[q].status = "http_error"
    /\ \E q \in RenamesIn(2) : calls[q].status = "network_error"
    /\ \E q \in RenamesIn(3) : calls[q].status = "ok"

\* How a run can end before its loop.
CredentialFailed == \E p \in Pos("token") : calls[p].status # "ok"
ListingFailed == \E p \in Pos("list") : calls[p].status # "ok"
EmptyListing == runs = PyList(<<>>)

\* C6: when the token exchange fails, or the listing fails, or the listing
\* yields no qualifying activity, update_last_runs ends without entering its
\* loop: no caption is fetched, no rename is sent and no summary is printed.
\* (The run is over at "done", and at "raised" for the token answer that
\* lacks the field; "check_runs" is the step between get_last_runs and the
\* test of its result.)
C6_NoLoopAfterEarlyFailure ==
    (CredentialFailed \/ ListingFailed \/ EmptyListing) =>
        /\ pc \in {"check_runs", "done", "raised"}
        /\ ~LoopEntered
        /\ Sent("caption") = 0
        /\ Sent("rename") = 0
        /\ ~Printed("Successfully updated N out of M activities")
        /\ ~Printed("Finished updating runs!")
        /\ ~Printed("Updating running activities")

C6_Witness ==
    /\ pc = "done"
    /\ EmptyListing
    /\ Len(remote) >= 1
    /\ Sent("list") = 1

C6_WitnessFailure ==
    /\ pc = "done"
    /\ (CredentialFailed \/ ListingFailed)

\* What update_last_runs itself tells its caller: the lines it prints (it
\* returns None on every path).
UpdateLastRunsMessages ==
    {"No running activities found or error occurred",
     "Updating running activities",
     "Failed to get commit message, skipping activity",
     "Updating run", "Successfully updated", "Failed to update",
     "Finished updating runs!", "Successfully updated N out of M activities"}
Report == SelectSeq(out, LAMBDA l : l.msg \in UpdateLastRunsMessages)
AbortReport == <<Line("No running activities found or error occurred", 0, 0)>>

\* C7: update_last_runs reports a listing that succeeded with zero qualifying
\* activities differently from a listing failure or a credential failure: the
\* failures get the abort report, the empty listing does not.
C7_EmptyListingReportedApart ==
    /\ (pc = "done" /\ (CredentialFailed \/ ListingFailed)) => Report = AbortReport
    /\ (pc = "done" /\ EmptyListing) => Report # AbortReport

\* C8: each failure of the token exchange (network error, non-2xx answer,
\* 2xx answer without the access-token field) makes refresh_access_token
\* return False after its single request: nothing is raised, no token is
\* stored, and get_last_runs returns None to update_last_runs.
C8_RefreshFailureReturnsFalse ==
    \A p \in Pos("token") :
        calls[p].status \in {"network_error", "http_error", "no_field"} =>
            /\ Sent("token") = 1
            /\ updater.access_token = PyNone
            /\ pc # "raised"
            /\ pc \in {"check_runs", "done"}
            /\ runs = PyNone

\* C9: a run makes at most one token exchange, before any other request; the
\* token it obtained is the credential of the listing and of every rename; a
\* rename that is rejected is followed by no token exchange; and when the
\* exchange fails no listing and no rename is sent.
C9_OneTokenExchangePerRun ==
    /\ Sent("token") <= 1
    /\ \A t \in Pos("token") : t = 1
    /\ \A p \in Pos("list") \cup Pos("rename") :
          \E t \in Pos("token") :
              /\ t < p
              /\ calls[t].status = "ok"
              /\ calls[t].body # <<>>
              /\ calls[p].auth = PyStr(calls[t].body)
    /\ \A q \in Pos("rename") :
          calls[q].status # "ok" => \A t \in Pos("token") : t < q
    /\ CredentialFailed => (Pos("list") \cup Pos("rename") = {})

C9_Witness ==
    /\ pc = "done"
    /\ Sent("token") = 1
    /\ Sent("list") = 1
    /\ \E q \in RenamesIn(1) : calls[q].status = "http_error"
    /\ \E q \in RenamesIn(2) : calls[q].status = "ok"

\* The remote title of the activity with the given identifier.
RemoteName(id) == remote[CHOOSE k \in 1..Len(remote) : remote[k].id = id].name

\* C10: every rename request carries the identifier of the item of its own
\* iteration (items are taken in work-list order) and the trimmed text of the
\* caption fetched just before it in that iteration; after the run, an item
\* whose rename succeeded has that caption as its remote title.
C10_RenamePairsItemWithItsCaption ==
    /\ \A q \in Pos("rename") :
          /\ q > 1
          /\ calls[q - 1].kind = "caption"
          /\ calls[q - 1].status = "ok"
          /\ IsTrimOf(calls[q].name, calls[q - 1].body)
          /\ IterOf(q) \in 1..Len(runs.v)
          /\ calls[q].id = runs.v[IterOf(q)].id
    /\ pc = "done" =>
          \A q \in Pos("rename") :
              calls[q].status = "ok" =>
                  IsTrimOf(RemoteName(calls[q].id), calls[q - 1].body)

C10_Witness ==
    /\ pc = "done"
    /\ Len(runs.v) = 2
    /\ \E q \in RenamesIn(1) : calls[q].status = "ok" /\ calls[q].name = <<"b", " ", "c">>
    /\ \E q \in RenamesIn(2) : calls[q].status = "ok" /\ calls[q].name = <<"a">>
    /\ RemoteName(runs.v[1].id) = <<"b", " ", "c">>
    /\ RemoteName(runs.v[2].id) = <<"a">>

\* The renames the remote service accepted.
OkRenames == {q \in Pos("rename") : calls[q].status = "ok"}

\* C12: the counter never exceeds the number of renames sent, which never
\* exceeds the length of the work list; when the loop is over the counter is
\* the number of renames that succeeded; and the summary reports that number
\* out of the length of the work list, skipped items included.
C12_CountersOfTheRun ==
    /\ 0 <= success_count
    /\ success_count <= Sent("rename")
    /\ ~LoopEntered => (Sent("rename") = 0 /\ success_count = 0)
    /\ LoopEntered => Sent("rename") <= Len(runs.v)
    /\ LoopOver => success_count = Cardinality(OkRenames)
    /\ (LoopEntered /\ pc = "done") =>
          out[Len(out)] = Line("Successfully updated N out of M activities",
                               Cardinality(OkRenames), Len(runs.v))

C12_Witness ==
    /\ pc = "done"
    /\ Len(runs.v) = 3
    /\ Sent("rename") = 2
    /\ Cardinality(OkRenames) = 1
    /\ out[Len(out)].a = 1
    /\ out[Len(out)].b = 3

\* The rank of position p among the "Run" entries of the account.
RunRank(p) == Cardinality({r \in RunPositions : r <= p})

\* Every rename sent so far names a "Run" activity, one of the first `count`
\* runs, and no activity is named by two renames.
RenamesWithinWorkList ==
    \A q \in Pos("rename") :
        /\ \E p \in RunPositions :
              /\ remote[p].id = calls[q].id
              /\ count >= 0 => RunRank(p) <= count
        /\ \E k \in 1..Len(runs.v) : runs.v[k].id = calls[q].id
        /\ \A q2 \in Pos("rename") : calls[q2].id = calls[q].id => q2 = q

\* A step leaves the account as it was, except for the name of the activity
\* that an accepted rename of this step targets.
RenameFrame ==
    /\ Len(remote') = Len(remote)
    /\ \A k \in 1..Len(remote) :
          /\ remote'[k].id = remote[k].id
          /\ remote'[k].type = remote[k].type
          /\ remote'[k].name # remote[k].name =>
                /\ Len(calls') > Len(calls)
                /\ calls'[Len(calls')].kind = "rename"
                /\ calls'[Len(calls')].status = "ok"
                /\ calls'[Len(calls')].id = remote[k].id
                /\ calls'[Len(calls')].name = remote'[k].name

\* C13: a run renames only activities of its work list (never an activity
\* that is not a "Run", never a run beyond the first n of the page), each at
\* most once, and a rename changes nothing but the name of its target.
C13_RenamesOnlyTheWorkList ==
    [] RenamesWithinWorkList /\ [][RenameFrame]_vars

C13_Witness ==
    /\ pc = "done"
    /\ count = 1
    /\ Len(remote) = 3
    /\ remote[1].type = "Ride" /\ remote[1].name = OldName
    /\ remote[2].type = "Run" /\ remote[2].name = <<"a">>
    /\ remote[3].type = "Run" /\ remote[3].name = OldName

\* The caption fetch p was answered with a body that is empty once trimmed.
CaptionBlank(p) == calls[p].status = "ok" /\ IsTrimOf(<<>>, calls[p].body)

\* C16: no rename is ever sent with an empty title: the title is the caption
\* answer without its leading and trailing whitespace, and an answer that is
\* empty once trimmed is treated as a failed fetch: the item is skipped with
\* the same message, no rename is sent for it, and the loop goes on.
C16_NoRenameWithEmptyTitle ==
    /\ \A q \in Pos("rename") :
          /\ calls[q].name # <<>>
          /\ q > 1
          /\ calls[q - 1].kind = "caption"
          /\ IsTrimOf(calls[q].name, calls[q - 1].body)
    /\ \A p \in Pos("caption") :
          CaptionBlank(p) =>
              /\ RenamesIn(IterOf(p)) = {}
              /\ p = Len(calls) => commit_message = PyStr(<<>>)
              /\ pc \in {"caption", "rename", "summary", "done"}
              /\ p = Len(calls) => i = IterOf(p) + 1
              /\ (pc = "done" /\ IterOf(p) < Len(runs.v)) =>
                    \E p2 \in Pos("caption") : IterOf(p2) = IterOf(p) + 1
    /\ Cardinality({k \in 1..Len(out) :
                       out[k].msg = "Failed to get commit message, skipping activity"})
          = Cardinality({p \in Pos("caption") : CaptionFailed(p) \/ CaptionBlank(p)})
    /\ LoopOver => Sent("caption") = Len(runs.v)

C16_Witness ==
    /\ pc = "done"
    /\ Len(runs.v) = 3
    /\ \E p \in Pos("caption") : IterOf(p) = 1 /\ calls[p].body = <<"\n">>
    /\ \E p \in Pos("caption") : IterOf(p) = 2 /\ calls[p].body = <<>>
    /\ \E q \in RenamesIn(3) :
          /\ calls[q - 1].body = <<" ", "a", "\n">>
          /\ calls[q].name = <<"a">>
    /\ Sent("rename") = 1

\* The run is over: update_last_runs (or main) returned, or ended with the
\* KeyError of refresh_access_token.
RunOver == pc \in {"done", "raised"}

\* No request is repeated: one token exchange and one listing at most, and at
\* most one caption fetch and one rename per item of the work list.
NoRetry ==
    /\ Sent("token") <= 1
    /\ Sent("list") <= 1
    /\ Sent("caption") <= (IF runs.t = "list" THEN Len(runs.v) ELSE 0)
    /\ Sent("rename") <= (IF runs.t = "list" THEN Len(runs.v) ELSE 0)
    /\ \A p \in Pos("caption") : Cardinality(RenamesIn(IterOf(p))) <= 1
    /\ \A q \in Pos("rename") : IterOf(q) >= 1
    /\ \A q1, q2 \in Pos("rename") : calls[q1].id = calls[q2].id => q1 = q2

\* C14: every run comes to its end, whatever the outcomes of its remote
\* calls, and it never repeats a request.
C14_TerminatesWithoutRetry == <>RunOver /\ []NoRetry

C14_Witness ==
    /\ pc = "done"
    /\ Len(runs.v) = 3
    /\ Sent("token") = 1
    /\ Sent("list") = 1
    /\ Sent("caption") = 3
    /\ Sent("rename") = 3
    /\ OkRenames = {}

\* The accepted rename q is the latest accepted rename of its activity.
LatestRename(q) ==
    /\ q \in OkRenames
    /\ \A q2 \in OkRenames : calls[q2].id = calls[q].id => q2 <= q

Authenticated(p) ==
    \E t \in Pos("token") :
        /\ t < p
        /\ calls[t].status = "ok"
        /\ calls[t].body # <<>>
        /\ calls[p].auth = PyStr(calls[t].body)

\* The direct call that ended last ended on a token exchange that failed.
EndedOnFailedExchange ==
    /\ last.method \in {"get_last_runs", "update_activity_title"}
    /\ last.at = Len(calls)
    /\ calls[Len(calls)].kind = "token"
    /\ calls[Len(calls)].status # "ok"

\* C15: every listing and every rename request carries a token obtained from
\* an earlier successful exchange; and a get_last_runs or update_activity_title
\* whose lazy exchange fails sends no listing or rename and returns its failure
\* value, None and False respectively.
C15_NoRequestWithoutCredential ==
    /\ \A p \in Pos("list") \cup Pos("rename") : Authenticated(p)
    /\ EndedOnFailedExchange =>
          last.ret = (IF last.method = "get_last_runs" THEN "None" ELSE "False")

\* The requests a step sends.
NewRequests == (Len(calls) + 1)..Len(calls')

\* What a step may do to the credential.
CredentialStep ==
    /\ updater'.client_id = updater.client_id
    /\ updater'.client_secret = updater.client_secret
    /\ updater'.refresh_token = updater.refresh_token
    /\ updater'.access_token # updater.access_token =>
          \E p \in NewRequests :
              /\ calls'[p].kind = "token"
              /\ calls'[p].status = "ok"
              /\ updater'.access_token = PyStr(calls'[p].body)
    /\ \A p \in NewRequests :
          (calls'[p].kind = "token" /\ calls'[p].status # "ok") =>
              updater'.access_token = updater.access_token
    /\ updater.access_token # PyNone => updater'.access_token # PyNone
    /\ \A p \in NewRequests :
          (calls'[p].kind = "token" /\ updater.access_token # PyNone) =>
              /\ last' # last
              /\ last'.method = "refresh_access_token"

\* C17: the token held changes only by a successful exchange: a failed
\* refresh_access_token leaves it as it was, nothing ever clears it, and once
\* it is held only an explicit refresh_access_token call exchanges tokens.
C17_CredentialChangesOnlyOnSuccess == [][CredentialStep]_vars

C17_Witness ==
    /\ Len(calls) = 3
    /\ calls[1].kind = "token" /\ calls[1].status = "ok"
    /\ calls[2].kind = "token" /\ calls[2].status = "http_error"
    /\ calls[3].kind = "rename"
    /\ calls[3].auth = PyStr(calls[1].body)
    /\ updater.access_token = PyStr(calls[1].body)

Next ==
    \/ Main
    \/ CallUpdateLastRuns
    \/ GetLastRunsEnsureToken
    \/ GetLastRunsFetch
    \/ UpdateLastRunsCheck
    \/ UpdateLastRunsCaption
    \/ UpdateLastRunsRename
    \/ UpdateLastRunsSummary

Spec == Init /\ [][Next]_vars

\* The script is sequential: whenever a step can be taken it is taken, every
\* remote call coming back with one of its outcomes.
FairSpec == Spec /\ WF_vars(Next)

(***************************************************************************)
(* A client session: one updater on which a client calls the public        *)
(* methods in any order.  refresh_access_token, get_last_runs and          *)
(* update_activity_title are single steps; update_last_runs goes through   *)
(* the steps above.  An exception reaches the client, which may go on      *)
(* using the updater.                                                      *)
(***************************************************************************)
SessionAccounts == {r \in RemoteStates : Len(r) <= MaxSessionActivities}

\* Counts a client passes: none, fewer than the account may hold, the default.
SessionCounts == {0, 1, MainCount}

InitSession ==
    /\ entry = "session"
    /\ env = FullEnvironment
    /\ count = 0
    /\ pc = "idle"
    /\ updater = NewUpdater(env.client_id, env.client_secret, env.refresh_token)
    /\ remote \in SessionAccounts
    /\ runs = PyNone
    /\ i = 0
    /\ commit_message = PyNone
    /\ success_count = 0
    /\ calls = <<>>
    /\ out = <<>>
    /\ last = NoCall

\* The client is between two calls and starts another one.
ClientIdle ==
    /\ entry = "session"
    /\ pc \in {"idle", "done", "raised"}
    /\ Len(calls) < MaxRequests

\* Titles a client passes to update_activity_title.
SessionTitles == {<<"a">>, <<"z">>}

\* updater.refresh_access_token()
SessionRefreshAccessToken ==
    /\ ClientIdle
    /\ \E o \in TokenOutcomes :
         LET r == RefreshAccessToken(updater, calls, o)
         IN  /\ updater' = r.updater
             /\ calls' = r.calls
             /\ out' = out \o r.lines
             /\ last' = Ended("refresh_access_token", r.ret, <<>>, Len(r.calls))
    /\ pc' = "idle"
    /\ UNCHANGED <<entry, env, count, remote, runs, i, commit_message, success_count>>

(***************************************************************************)
(* get_last_runs(n) as one call.  `t` is the token endpoint's answer       *)
(* should the method refresh, `o` the listing endpoint's.                  *)
(***************************************************************************)
GetLastRuns(u, log, r, n, t, o) ==
    LET fresh == IF NeedsRefresh(u) THEN RefreshAccessToken(u, log, t)
                 ELSE [updater |-> u, calls |-> log, lines |-> <<>>, ret |-> "True"]
        selected == SelectRuns(ListActivities(r, PerPage), n)
    IN  IF fresh.ret # "True"
          THEN [updater |-> fresh.updater, calls |-> fresh.calls,
                lines |-> fresh.lines,
                ret |-> IF fresh.ret = "False" THEN "None" ELSE fresh.ret,
                value |-> <<>>]
          ELSE [updater |-> fresh.updater,
                calls |-> Append(fresh.calls,
                                 Call("list", fresh.updater.access_token, 0, <<>>,
                                      PerPage, o, <<>>)),
                lines |-> fresh.lines \o
                          (IF o = "ok"
                             THEN <<Line("Found running activities", Len(selected), 0)>>
                             ELSE <<Line("Error fetching activities", 0, 0)>>),
                ret |-> IF o = "ok" THEN "list" ELSE "None",
                value |-> IF o = "ok" THEN selected ELSE <<>>]

\* updater.get_last_runs(n)
SessionGetLastRuns ==
    /\ ClientIdle
    /\ \E n \in SessionCounts :
       \E o \in HttpOutcomes :
       \E t \in (IF NeedsRefresh(updater) THEN TokenOutcomes ELSE {"ok"}) :
         LET r == GetLastRuns(updater, calls, remote, n, t, o)
         IN  /\ updater' = r.updater
             /\ calls' = r.calls
             /\ out' = out \o r.lines
             /\ last' = Ended("get_last_runs", r.ret, r.value, Len(r.calls))
    /\ pc' = "idle"
    /\ UNCHANGED <<entry, env, count, remote, runs, i, commit_message, success_count>>

\* updater.update_activity_title(activity_id, new_title)
SessionUpdateActivityTitle ==
    /\ ClientIdle
    /\ \E k \in 1..Len(remote) :
       \E title \in SessionTitles :
       \E o \in HttpOutcomes :
       \E t \in (IF NeedsRefresh(updater) THEN TokenOutcomes ELSE {"ok"}) :
         LET r == UpdateActivityTitle(updater, calls, remote, remote[k].id, title, t, o)
         IN  /\ updater' = r.updater
             /\ calls' = r.calls
             /\ remote' = r.remote
             /\ out' = out \o r.lines
             /\ last' = Ended("update_activity_title", r.ret, <<>>, Len(r.calls))
    /\ pc' = "idle"
    /\ UNCHANGED <<entry, env, count, runs, i, commit_message, success_count>>

\* updater.update_last_runs(n): the call is entered, its locals are fresh
SessionUpdateLastRuns ==
    /\ ClientIdle
    /\ \E n \in SessionCounts : count' = n
    /\ pc' = "get_last_runs"
    /\ runs' = PyNone
    /\ i' = 0
    /\ commit_message' = PyNone
    /\ success_count' = 0
    /\ UNCHANGED <<entry, env, updater, remote, calls, out, last>>

NextSession ==
    \/ SessionRefreshAccessToken
    \/ SessionGetLastRuns
    \/ SessionUpdateActivityTitle
    \/ SessionUpdateLastRuns
    \/ GetLastRunsEnsureToken
    \/ GetLastRunsFetch
    \/ UpdateLastRunsCheck
    \/ UpdateLastRunsCaption
    \/ UpdateLastRunsRename
    \/ UpdateLastRunsSummary

SessionSpec == InitSession /\ [][NextSession]_vars
====
